---- MODULE Spec2Model ----
(***************************************************************************)
(* ERP financial analytics: the sample-data generator and the KPI and      *)
(* period-listing endpoints of src/api/main.py, with the tables of the     *)
(* SQLite store they share.                                                *)
(*                                                                         *)
(* Floats are modelled as exact rationals <<n, d>> (d > 0, lowest terms)   *)
(* plus the IEEE values NaN and +-Inf, so that a division is a division    *)
(* and not an integer quotient.  Amounts are held in thousands of dollars  *)
(* (Dollars), to keep the numerators small.                                *)
(* Dates are records [year, month, day] of the proleptic Gregorian         *)
(* calendar, as datetime.date.                                             *)
(***************************************************************************)
EXTENDS Integers, Sequences, FiniteSets, TLC

----------------------------------------------------------------------------
(* Float arithmetic *)

Abs(x) == IF x < 0 THEN -x ELSE x

RECURSIVE GCD(_, _)
GCD(a, b) == IF b = 0 THEN a ELSE GCD(b, a % b)

\* the rational n/d in lowest terms with a positive denominator (d # 0)
Rat(n, d) ==
    LET g == GCD(Abs(n), Abs(d))
        s == IF d < 0 THEN -1 ELSE 1
    IN  <<(s * n) \div g, (s * d) \div g>>

Zero == <<0, 1>>
Num(x) == x[1]
Den(x) == x[2]

\* the non-finite floats, written with a zero denominator
NaN == <<0, 0>>
PosInf == <<1, 0>>
NegInf == <<-1, 0>>
IsFinite(x) == Den(x) # 0

\* comparisons of finite floats
IsPos(x) == Num(x) > 0
IsNeg(x) == Num(x) < 0

RAdd(a, b) ==
    LET g == GCD(Den(a), Den(b))
        l == (Den(a) \div g) * Den(b)
    IN  Rat(Num(a) * (l \div Den(a)) + Num(b) * (l \div Den(b)), l)

RNeg(a) == <<-Num(a), Den(a)>>
RSub(a, b) == RAdd(a, RNeg(b))

RMul(a, b) ==
    LET g1 == GCD(Abs(Num(a)), Den(b))
        g2 == GCD(Abs(Num(b)), Den(a))
    IN  Rat((Num(a) \div g1) * (Num(b) \div g2), (Den(a) \div g2) * (Den(b) \div g1))

RLess(a, b) == IsNeg(RSub(a, b))

\* a * b on floats that may not be finite
FMul(a, b) ==
    IF IsFinite(a) /\ IsFinite(b) THEN RMul(a, b)
    ELSE IF a = NaN \/ b = NaN THEN NaN
    ELSE IF a = Zero \/ b = Zero THEN NaN
    ELSE IF (a = NegInf \/ (IsFinite(a) /\ IsNeg(a))) = (b = NegInf \/ (IsFinite(b) /\ IsNeg(b)))
         THEN PosInf ELSE NegInf

\* numpy's float64 division: x / 0 is nan for x = 0 and +-inf otherwise
\* (a RuntimeWarning, not an exception)
FDiv(a, b) ==
    IF ~(IsFinite(a) /\ IsFinite(b)) THEN NaN
    ELSE IF b = Zero THEN (IF a = Zero THEN NaN ELSE IF IsPos(a) THEN PosInf ELSE NegInf)
    ELSE RMul(a, <<(IF IsNeg(b) THEN -1 ELSE 1) * Den(b), Abs(Num(b))>>)

\* a - b on floats that may not be finite
FSub(a, b) ==
    IF IsFinite(a) /\ IsFinite(b) THEN RSub(a, b)
    ELSE IF a = NaN \/ b = NaN THEN NaN
    ELSE IF IsFinite(b) THEN a
    ELSE IF IsFinite(a) THEN (IF b = PosInf THEN NegInf ELSE PosInf)
    ELSE IF a = b THEN NaN ELSE a

\* Python's max(x, 0)
Max0(x) == IF IsPos(x) THEN x ELSE Zero

\* sum(f(r) for r in rows) over a sequence of finite floats
RECURSIVE SumSeq(_)
SumSeq(s) == IF s = <<>> THEN Zero ELSE RAdd(Head(s), SumSeq(Tail(s)))

----------------------------------------------------------------------------
(* datetime.date *)

IsLeap(y) == (y % 4 = 0 /\ y % 100 # 0) \/ y % 400 = 0

DaysInMonth(y, m) ==
    IF m = 2 THEN (IF IsLeap(y) THEN 29 ELSE 28)
    ELSE IF m \in {4, 6, 9, 11} THEN 30 ELSE 31

DaysBeforeYear(y) ==
    (y - 1) * 365 + (y - 1) \div 4 - (y - 1) \div 100 + (y - 1) \div 400

RECURSIVE DaysBeforeMonth(_, _)
DaysBeforeMonth(y, m) ==
    IF m = 1 THEN 0 ELSE DaysBeforeMonth(y, m - 1) + DaysInMonth(y, m - 1)

Date(y, m, d) == [year |-> y, month |-> m, day |-> d]

\* date.toordinal()
ToOrdinal(dt) == DaysBeforeYear(dt.year) + DaysBeforeMonth(dt.year, dt.month) + dt.day

RECURSIVE YearOfOrdinal(_, _)
YearOfOrdinal(n, y) ==
    IF n > DaysBeforeYear(y + 1) THEN YearOfOrdinal(n, y + 1)
    ELSE IF n <= DaysBeforeYear(y) THEN YearOfOrdinal(n, y - 1)
    ELSE y

RECURSIVE MonthOfOrdinal(_, _, _)
MonthOfOrdinal(n, y, m) ==
    IF n > DaysBeforeMonth(y, m) + DaysInMonth(y, m) THEN MonthOfOrdinal(n, y, m + 1) ELSE m

\* date.fromordinal(n)
FromOrdinal(n) ==
    LET y == YearOfOrdinal(n, n \div 366 + 1)
        r == n - DaysBeforeYear(y)
        m == MonthOfOrdinal(r, y, 1)
    IN  Date(y, m, r - DaysBeforeMonth(y, m))

\* dt - timedelta(days=k)
MinusDays(dt, k) == FromOrdinal(ToOrdinal(dt) - k)

\* date comparisons
DateLess(a, b) ==
    \/ a.year < b.year
    \/ a.year = b.year /\ a.month < b.month
    \/ a.year = b.year /\ a.month = b.month /\ a.day < b.day
DateLeq(a, b) == a = b \/ DateLess(a, b)

----------------------------------------------------------------------------
(* Bounds of the model *)

\* days of history generated: timedelta(days=730) in the code
SpanDays == 40
\* period_months ranges over 1..24 in the code
MaxPeriodMonths == 2
\* limit ranges over 1..100 in the code
MaxLimit == 2
\* invocations of the generator (process starts) in one behaviour
MaxRuns == 2
MaxFrameRows == 2

\* server processes sharing the SQLite file
Procs == {"p1", "p2"}

\* values of datetime.now().date()
Todays == {Date(2025, 1, 31), Date(2024, 3, 31)}

----------------------------------------------------------------------------
(* Constants of the program *)

revenue_base == 50000000
STARTING_BALANCE == 10000000
DAYS_PER_MONTH == 30

\* an amount of n dollars
Dollars(n) == Rat(n, 1000)

CompanyUnit == {"consolidated", "north_america", "europe", "asia_pacific"}
DEFAULT_UNIT == "consolidated"

\* 1 + 0.1 * sin(2 * pi * month / 12), the sine to four decimals
month_factor(m) ==
    CASE m \in {6, 12} -> Rat(1, 1)
      [] m \in {1, 5}  -> Rat(105, 100)
      [] m \in {2, 4}  -> Rat(10866, 10000)
      [] m = 3         -> Rat(11, 10)
      [] m \in {7, 11} -> Rat(95, 100)
      [] m \in {8, 10} -> Rat(9134, 10000)
      [] m = 9         -> Rat(9, 10)

\* (current_date.year - start_date.year) * 12 + (current_date.month - start_date.month)
months_since_start(current_date, start_date) ==
    (current_date.year - start_date.year) * 12 + (current_date.month - start_date.month)

\* 1 + months_since_start * 0.005
growth_factor(n) == Rat(200 + n, 200)

\* One month's calls of np.random.normal, in the order of the code.  A normal
\* variate can be any real; the model draws the means and a few tail values.
MeanDraw ==
    [ random_factor      |-> Rat(1, 1),
      cogs_pct           |-> Rat(35, 100),
      salaries_pct       |-> Rat(25, 100),
      marketing_pct      |-> Rat(8, 100),
      rd_pct             |-> Rat(12, 100),
      operations_pct     |-> Rat(6, 100),
      other_pct          |-> Rat(4, 100),
      budget_variance    |-> Rat(11, 10),
      budget_expenses_f  |-> Rat(95, 100),
      operating_noise    |-> Dollars(500000),
      investing_cf       |-> Dollars(-200000),
      financing_cf       |-> Dollars(-100000) ]

Draws ==
    { MeanDraw,
      \* a revenue factor below zero: revenue is clamped to 0
      [MeanDraw EXCEPT !.random_factor = Rat(-1, 10)],
      \* a revenue factor of exactly zero
      [MeanDraw EXCEPT !.random_factor = Zero],
      \* tail values of the expense factors: the marketing factor is below
      \* zero (mean 0.08, deviation 0.02), the others are above their means
      \* and the month closes at a loss
      [MeanDraw EXCEPT !.cogs_pct = Rat(44, 100), !.salaries_pct = Rat(28, 100),
                       !.marketing_pct = Rat(-1, 100), !.rd_pct = Rat(15, 100),
                       !.operations_pct = Rat(9, 100), !.other_pct = Rat(7, 100)] }

----------------------------------------------------------------------------
(* State *)

VARIABLES
    today,              \* datetime.now().date()
    financial_periods,  \* committed rows of table financial_periods, by id
    budget_data,        \* committed rows of table budget_data, by id
    cash_flow_data,     \* committed rows of table cash_flow_data, by id
    gen,                \* per process: the running generate_sample_financial_data
    runs,               \* generator invocations started so far
    dashboard,          \* the dashboard's call of create_kpi_metrics
    resp                \* the response a handler has computed and not yet sent;
                        \* a handler and the sending of its response are one
                        \* step of the server, kept apart so that the
                        \* properties can speak of the response: nothing else
                        \* moves while a response is held

vars == <<today, financial_periods, budget_data, cash_flow_data, gen, runs, dashboard, resp>>

NoDate == Date(0, 0, 0)
NoResponse == [op |-> "none"]

IdleGen ==
    [ pc |-> "idle", end_date |-> NoDate, start_date |-> NoDate, current_date |-> NoDate,
      new_financial |-> <<>>, new_budget |-> <<>>, new_cash |-> <<>> ]

\* the dashboard before main has called create_kpi_metrics
NoCall == [ pc |-> "idle" ]

Init ==
    /\ today \in Todays
    /\ dashboard = NoCall
    /\ financial_periods = <<>>
    /\ budget_data = <<>>
    /\ cash_flow_data = <<>>
    /\ gen = [p \in Procs |-> IdleGen]
    /\ runs = 0
    /\ resp = NoResponse

----------------------------------------------------------------------------
(* Queries *)

\* the rows that may come first under ORDER BY period_date DESC
\* (rows of equal period_date come in no defined order)
LatestRows(rows) ==
    { rows[i] : i \in { j \in 1..Len(rows) :
        \A k \in 1..Len(rows) : DateLeq(rows[k].period_date, rows[j].period_date) } }

----------------------------------------------------------------------------
(* generate_sample_financial_data *)

\* current_date = start_date.replace(day=1)
FirstOfMonth(dt) == Date(dt.year, dt.month, 1)

\* NextMonth that moves on by two months
NextMonthSkipping(dt) ==
    IF dt.month >= 11 THEN Date(dt.year + 1, dt.month - 10, dt.day)
    ELSE Date(dt.year, dt.month + 2, dt.day)

\* "Move to next month"
NextMonth(dt) ==
    IF dt.month = 12 THEN Date(dt.year + 1, 1, dt.day) ELSE Date(dt.year, dt.month + 1, dt.day)

\* (revenue_base / 12) * month_factor * growth_factor * random_factor
RawRevenue(current_date, start_date, draw) ==
    RMul(RMul(RMul(FDiv(Dollars(revenue_base), Rat(12, 1)), month_factor(current_date.month)),
              growth_factor(months_since_start(current_date, start_date))),
         draw.random_factor)

\* monthly_revenue = max(monthly_revenue, 0)
MonthlyRevenue(current_date, start_date, draw) ==
    Max0(RawRevenue(current_date, start_date, draw))

\* The margins divide by monthly_revenue.  np.random.normal returns Python
\* floats and np.sin a numpy float64, so the revenue is a float64 and a
\* negative one is replaced by the int 0 of max(.., 0): the expenses and
\* profits are then Python floats and 0.0 / 0 raises ZeroDivisionError.  A
\* revenue of exactly 0.0 stays a float64, whose 0.0 / 0.0 is nan.
RaisesZeroDivision(current_date, start_date, draw) ==
    IsNeg(RawRevenue(current_date, start_date, draw))

\* FinancialPeriod(...): the row built for one month
FinancialRow(current_date, start_date, draw) ==
    LET monthly_revenue == MonthlyRevenue(current_date, start_date, draw)
        cogs            == RMul(monthly_revenue, draw.cogs_pct)
        salaries        == RMul(monthly_revenue, draw.salaries_pct)
        marketing       == RMul(monthly_revenue, draw.marketing_pct)
        rd              == RMul(monthly_revenue, draw.rd_pct)
        operations      == RMul(monthly_revenue, draw.operations_pct)
        other_expenses  == RMul(monthly_revenue, draw.other_pct)
        total_expenses  == RAdd(RAdd(RAdd(RAdd(RAdd(cogs, salaries), marketing), rd),
                                     operations), other_expenses)
        gross_profit    == RSub(monthly_revenue, cogs)
        net_profit      == RSub(monthly_revenue, total_expenses)
        gross_margin    == FMul(FDiv(gross_profit, monthly_revenue), Rat(100, 1))
        net_margin      == FMul(FDiv(net_profit, monthly_revenue), Rat(100, 1))
    IN  [ period_date      |-> current_date,
          company_unit     |-> DEFAULT_UNIT,
          revenue          |-> monthly_revenue,
          cogs             |-> cogs,
          gross_profit     |-> gross_profit,
          salaries         |-> salaries,
          marketing        |-> marketing,
          rd_expense       |-> rd,
          operations       |-> operations,
          other_expenses   |-> other_expenses,
          total_expenses   |-> total_expenses,
          net_profit       |-> net_profit,
          gross_margin_pct |-> gross_margin,
          net_margin_pct   |-> net_margin ]

\* BudgetRow with the net profit scaled by the draw of the expenses
BudgetRowOwnDraws(fin, draw) ==
    [ period_date       |-> fin.period_date,
      company_unit      |-> DEFAULT_UNIT,
      budget_revenue    |-> RMul(fin.revenue, draw.budget_variance),
      budget_net_profit |-> RMul(fin.net_profit, draw.budget_expenses_f),
      budget_expenses   |-> RMul(fin.total_expenses, draw.budget_expenses_f) ]

\* BudgetData(...): one draw is shared by revenue and net profit
BudgetRow(fin, draw) ==
    [ period_date       |-> fin.period_date,
      company_unit      |-> DEFAULT_UNIT,
      budget_revenue    |-> RMul(fin.revenue, draw.budget_variance),
      budget_net_profit |-> RMul(fin.net_profit, draw.budget_variance),
      budget_expenses   |-> RMul(fin.total_expenses, draw.budget_expenses_f) ]

\* The balances the loop may carry forward.  The query runs on a session with
\* autoflush=False before any flush, so it reads the committed table only:
\* the rows this invocation has added are not among them.
PreviousBalances(current_date, start_date) ==
    LET earlier == SelectSeq(cash_flow_data, LAMBDA r : DateLess(r.period_date, current_date))
    IN  IF DateLess(start_date, current_date) /\ earlier # <<>>
        THEN { r.cash_balance : r \in LatestRows(earlier) }
        ELSE { Dollars(STARTING_BALANCE) }

\* CashFlowData(...)
CashFlowRow(fin, draw, previous_balance) ==
    LET operating_cf == RAdd(fin.net_profit, draw.operating_noise)
        net_cf       == RAdd(RAdd(operating_cf, draw.investing_cf), draw.financing_cf)
    IN  [ period_date         |-> fin.period_date,
          company_unit        |-> DEFAULT_UNIT,
          operating_cash_flow |-> operating_cf,
          investing_cash_flow |-> draw.investing_cf,
          financing_cash_flow |-> draw.financing_cf,
          net_cash_flow       |-> net_cf,
          cash_balance        |-> RAdd(previous_balance, net_cf) ]

\* GenerateStart without the check for existing records
GenerateStartNoCheck(p) ==
    /\ resp = NoResponse
    /\ gen[p].pc = "idle"
    /\ runs < MaxRuns
    /\ runs' = runs + 1
    /\ LET start_date == MinusDays(today, SpanDays)
       IN  gen' = [gen EXCEPT ![p] =
               [ IdleGen EXCEPT !.pc = "loop", !.end_date = today,
                   !.start_date = start_date,
                   !.current_date = FirstOfMonth(start_date) ]]
    /\ UNCHANGED <<dashboard, today, financial_periods, budget_data, cash_flow_data, resp>>

\* startup_event opens a session and calls the generator: the count query,
\* the early return, and the set-up of the loop
GenerateStart(p) ==
    /\ resp = NoResponse
    /\ gen[p].pc = "idle"
    /\ runs < MaxRuns
    /\ runs' = runs + 1
    /\ IF Len(financial_periods) > 0
       THEN gen' = [gen EXCEPT ![p] = [IdleGen EXCEPT !.pc = "done"]]
       ELSE LET start_date == MinusDays(today, SpanDays)
            IN  gen' = [gen EXCEPT ![p] =
                    [ IdleGen EXCEPT !.pc = "loop", !.end_date = today,
                        !.start_date = start_date,
                        !.current_date = FirstOfMonth(start_date) ]]
    /\ UNCHANGED <<dashboard, today, financial_periods, budget_data, cash_flow_data, resp>>

\* one iteration of "while current_date <= end_date"
GenerateMonth(p) ==
    /\ resp = NoResponse
    /\ gen[p].pc = "loop"
    /\ DateLeq(gen[p].current_date, gen[p].end_date)
    /\ \E draw \in Draws :
          IF RaisesZeroDivision(gen[p].current_date, gen[p].start_date, draw)
          THEN \* the exception leaves the generator; startup_event closes the session
               gen' = [gen EXCEPT ![p] = [IdleGen EXCEPT !.pc = "failed"]]
          ELSE \E previous_balance \in
                     PreviousBalances(gen[p].current_date, gen[p].start_date) :
                  LET fin == FinancialRow(gen[p].current_date, gen[p].start_date, draw)
                  IN  gen' = [gen EXCEPT
                          ![p].new_financial = Append(@, fin),
                          ![p].new_budget = Append(@, BudgetRow(fin, draw)),
                          ![p].new_cash = Append(@, CashFlowRow(fin, draw, previous_balance)),
                          ![p].current_date = NextMonth(@)]
    /\ UNCHANGED <<dashboard, today, financial_periods, budget_data, cash_flow_data, runs, resp>>

\* a float column declared nullable=False refuses NaN (SQLite stores it as NULL)
Storable(fin) ==
    /\ fin.gross_margin_pct # NaN
    /\ fin.net_margin_pct # NaN

\* GenerateCommit with one transaction per table: the budget rows stay
\* when the financial rows are refused
GenerateCommitPerTable(p) ==
    /\ resp = NoResponse
    /\ gen[p].pc = "loop"
    /\ ~DateLeq(gen[p].current_date, gen[p].end_date)
    /\ IF \A i \in 1..Len(gen[p].new_financial) : Storable(gen[p].new_financial[i])
       THEN /\ financial_periods' = financial_periods \o gen[p].new_financial
            /\ budget_data' = budget_data \o gen[p].new_budget
            /\ cash_flow_data' = cash_flow_data \o gen[p].new_cash
            /\ gen' = [gen EXCEPT ![p] = [IdleGen EXCEPT !.pc = "done"]]
       ELSE /\ gen' = [gen EXCEPT ![p] = [IdleGen EXCEPT !.pc = "failed"]]
            /\ budget_data' = budget_data \o gen[p].new_budget
            /\ UNCHANGED <<financial_periods, cash_flow_data>>
    /\ UNCHANGED <<dashboard, today, runs, resp>>

\* db.commit() after the loop: all pending rows are inserted in one
\* transaction, or the IntegrityError leaves the store as it was; either way
\* startup_event closes the session
GenerateCommit(p) ==
    /\ resp = NoResponse
    /\ gen[p].pc = "loop"
    /\ ~DateLeq(gen[p].current_date, gen[p].end_date)
    /\ IF \A i \in 1..Len(gen[p].new_financial) : Storable(gen[p].new_financial[i])
       THEN /\ financial_periods' = financial_periods \o gen[p].new_financial
            /\ budget_data' = budget_data \o gen[p].new_budget
            /\ cash_flow_data' = cash_flow_data \o gen[p].new_cash
            /\ gen' = [gen EXCEPT ![p] = [IdleGen EXCEPT !.pc = "done"]]
       ELSE /\ gen' = [gen EXCEPT ![p] = [IdleGen EXCEPT !.pc = "failed"]]
            /\ UNCHANGED <<financial_periods, budget_data, cash_flow_data>>
    /\ UNCHANGED <<dashboard, today, runs, resp>>

\* the process ends and is started again
Restart(p) ==
    /\ resp = NoResponse
    /\ gen[p].pc \in {"done", "failed"}
    /\ runs < MaxRuns
    /\ gen' = [gen EXCEPT ![p] = IdleGen]
    /\ UNCHANGED <<dashboard, today, financial_periods, budget_data, cash_flow_data, runs, resp>>

----------------------------------------------------------------------------
(* GET /financial/kpis *)

\* uvicorn serves requests once startup_event has returned (a startup that
\* raises ends the process); the handlers are coroutines that never await,
\* so the event loop runs each to its end before the next
Serving == (\E p \in Procs : gen[p].pc = "done") /\ resp = NoResponse

\* the revenue (net profit) column of a list of rows
Revenues(rows) == [i \in 1..Len(rows) |-> rows[i].revenue]
NetProfits(rows) == [i \in 1..Len(rows) |-> rows[i].net_profit]

\* start_date = end_date - timedelta(days=period_months * 30)
WindowStart(end_date, period_months) == MinusDays(end_date, period_months * DAYS_PER_MONTH)

\* the first query: period_date >= start_date, period_date <= end_date, unit
CurrentData(period_months, company_unit, end_date) ==
    LET start_date == WindowStart(end_date, period_months)
    IN  SelectSeq(financial_periods, LAMBDA r :
            /\ DateLeq(start_date, r.period_date)
            /\ DateLeq(r.period_date, end_date)
            /\ r.company_unit = company_unit)

\* PreviousData with period_date <= prev_end
PreviousDataClosed(period_months, company_unit, end_date) ==
    LET start_date == WindowStart(end_date, period_months)
        prev_start == MinusDays(start_date, period_months * DAYS_PER_MONTH)
        prev_end   == start_date
    IN  SelectSeq(financial_periods, LAMBDA r :
            /\ DateLeq(prev_start, r.period_date)
            /\ DateLeq(r.period_date, prev_end)
            /\ r.company_unit = company_unit)

\* the second query: period_date >= prev_start, period_date < prev_end, unit
PreviousData(period_months, company_unit, end_date) ==
    LET start_date == WindowStart(end_date, period_months)
        prev_start == MinusDays(start_date, period_months * DAYS_PER_MONTH)
        prev_end   == start_date
    IN  SelectSeq(financial_periods, LAMBDA r :
            /\ DateLeq(prev_start, r.period_date)
            /\ DateLess(r.period_date, prev_end)
            /\ r.company_unit = company_unit)

\* Margin as a fraction, not a percentage
MarginFraction(profit, revenue) ==
    IF IsPos(revenue) THEN FDiv(profit, revenue) ELSE Zero

\* (profit / revenue) * 100 if revenue > 0 else 0
Margin(profit, revenue) ==
    IF IsPos(revenue) THEN RMul(FDiv(profit, revenue), Rat(100, 1)) ELSE Zero

\* RevenueGrowth with the change taken over the current revenue
RevenueGrowthOverCurrent(current_revenue, prev_revenue) ==
    IF IsPos(prev_revenue)
    THEN RMul(FDiv(RSub(current_revenue, prev_revenue), current_revenue), Rat(100, 1))
    ELSE Zero

\* ((current_revenue - prev_revenue) / prev_revenue) * 100 if prev_revenue > 0 else 0
RevenueGrowth(current_revenue, prev_revenue) ==
    IF IsPos(prev_revenue)
    THEN RMul(FDiv(RSub(current_revenue, prev_revenue), prev_revenue), Rat(100, 1))
    ELSE Zero

\* ((current_profit - prev_profit) / prev_profit) * 100 if prev_profit > 0 else 0
ProfitGrowth(current_profit, prev_profit) ==
    IF IsPos(prev_profit)
    THEN RMul(FDiv(RSub(current_profit, prev_profit), prev_profit), Rat(100, 1))
    ELSE Zero

\* CashData with the rows in ascending order: the earliest row comes first
CashDataEarliest(company_unit, end_date) ==
    LET rows == SelectSeq(cash_flow_data, LAMBDA r :
                    /\ DateLeq(r.period_date, end_date)
                    /\ r.company_unit = company_unit)
    IN  { rows[i] : i \in { j \in 1..Len(rows) :
            \A k \in 1..Len(rows) : DateLeq(rows[j].period_date, rows[k].period_date) } }

\* the rows the cash query may return first; the empty set when it returns None
CashData(company_unit, end_date) ==
    LatestRows(SelectSeq(cash_flow_data, LAMBDA r :
        /\ DateLeq(r.period_date, end_date)
        /\ r.company_unit = company_unit))

\* cash_data.cash_balance if cash_data else current_revenue * 0.15
CashPositions(company_unit, end_date, current_revenue) ==
    IF CashData(company_unit, end_date) # {}
    THEN { r.cash_balance : r \in CashData(company_unit, end_date) }
    ELSE { RMul(current_revenue, Rat(15, 100)) }

\* WithBaseline without the test of previous_data
WithBaselineAlways(previous_data, value) == value

\* growth rates start at 0 and are computed only "if previous_data:"
WithBaseline(previous_data, value) == IF previous_data # <<>> THEN value ELSE Zero

\* what the try block does: a KPIResponse, or the HTTPException it raises
KpiBody(period_months, company_unit, end_date, cash_position) ==
    LET current_data    == CurrentData(period_months, company_unit, end_date)
        previous_data   == PreviousData(period_months, company_unit, end_date)
        current_revenue == SumSeq(Revenues(current_data))
        current_profit  == SumSeq(NetProfits(current_data))
        current_margin  == Margin(current_profit, current_revenue)
        prev_revenue    == SumSeq(Revenues(previous_data))
        prev_profit     == SumSeq(NetProfits(previous_data))
        prev_margin     == Margin(prev_profit, prev_revenue)
    IN  IF current_data = <<>>
        THEN [ status |-> 404 ]
        ELSE [ status             |-> 200,
               total_revenue      |-> current_revenue,
               revenue_growth_pct |-> WithBaseline(previous_data,
                                          RevenueGrowth(current_revenue, prev_revenue)),
               total_profit       |-> current_profit,
               profit_growth_pct  |-> WithBaseline(previous_data,
                                          ProfitGrowth(current_profit, prev_profit)),
               net_margin_pct     |-> current_margin,
               margin_change_pp   |-> WithBaseline(previous_data,
                                          RSub(current_margin, prev_margin)),
               cash_position      |-> cash_position,
               period_start       |-> WindowStart(end_date, period_months),
               period_end         |-> end_date ]

\* "except Exception as e": every exception raised in the try block, the
\* HTTPException included, is raised again as HTTPException(500)
KpiExcept(outcome) == IF outcome.status = 200 THEN outcome ELSE [ status |-> 500 ]

\* get_financial_kpis that records the cash position it reports
get_financial_kpis_recording(period_months, company_unit) ==
    /\ Serving
    /\ \E cash_position \in
            CashPositions(company_unit, today,
                          SumSeq(Revenues(CurrentData(period_months, company_unit, today)))) :
          /\ resp' = [ op            |-> "kpis",
                       period_months |-> period_months,
                       company_unit  |-> company_unit,
                       result        |-> KpiExcept(KpiBody(period_months, company_unit,
                                                           today, cash_position)) ]
          /\ cash_flow_data' = Append(cash_flow_data,
                 [ period_date         |-> today,
                   company_unit        |-> company_unit,
                   operating_cash_flow |-> Zero,
                   investing_cash_flow |-> Zero,
                   financing_cash_flow |-> Zero,
                   net_cash_flow       |-> Zero,
                   cash_balance        |-> cash_position ])
    /\ UNCHANGED <<dashboard, today, financial_periods, budget_data, gen, runs>>

get_financial_kpis(period_months, company_unit) ==
    /\ Serving
    /\ \E cash_position \in
            CashPositions(company_unit, today,
                          SumSeq(Revenues(CurrentData(period_months, company_unit, today)))) :
          resp' = [ op            |-> "kpis",
                    period_months |-> period_months,
                    company_unit  |-> company_unit,
                    result        |-> KpiExcept(KpiBody(period_months, company_unit, today,
                                                        cash_position)) ]
    /\ UNCHANGED <<dashboard, today, financial_periods, budget_data, cash_flow_data, gen, runs>>

----------------------------------------------------------------------------
(* GET /financial/periods *)

\* values of the optional start_date and end_date parameters; NoDate is None
StartDates == {NoDate, Date(2024, 12, 15)}
EndDates == {NoDate, Date(2024, 2, 15)}

\* MatchingPeriods without the filter on company_unit
MatchingPeriodsAnyUnit(start_date, end_date, company_unit) ==
    SelectSeq(financial_periods, LAMBDA r :
        /\ (start_date # NoDate => DateLeq(start_date, r.period_date))
        /\ (end_date # NoDate => DateLeq(r.period_date, end_date)))

\* the filtered query
MatchingPeriods(start_date, end_date, company_unit) ==
    SelectSeq(financial_periods, LAMBDA r :
        /\ r.company_unit = company_unit
        /\ (start_date # NoDate => DateLeq(start_date, r.period_date))
        /\ (end_date # NoDate => DateLeq(r.period_date, end_date)))

\* the orders ORDER BY period_date DESC may give the rows at the indices S
RECURSIVE OrderDesc(_, _)
OrderDesc(rows, S) ==
    IF S = {} THEN { <<>> }
    ELSE UNION { { <<rows[i]>> \o t : t \in OrderDesc(rows, S \ {i}) } :
                 i \in { j \in S : \A k \in S :
                            DateLeq(rows[k].period_date, rows[j].period_date) } }

\* .limit(limit)
Limit(rows, limit) == SubSeq(rows, 1, IF Len(rows) < limit THEN Len(rows) ELSE limit)

\* reversed(periods)
Reversed(rows) == [i \in 1..Len(rows) |-> rows[Len(rows) + 1 - i]]

\* FinancialMetrics(period_date=p.period_date, ...)
FinancialMetrics(r) ==
    [ period_date      |-> r.period_date,
      revenue          |-> r.revenue,
      cogs             |-> r.cogs,
      gross_profit     |-> r.gross_profit,
      salaries         |-> r.salaries,
      marketing        |-> r.marketing,
      rd_expense       |-> r.rd_expense,
      operations       |-> r.operations,
      other_expenses   |-> r.other_expenses,
      total_expenses   |-> r.total_expenses,
      net_profit       |-> r.net_profit,
      gross_margin_pct |-> r.gross_margin_pct,
      net_margin_pct   |-> r.net_margin_pct ]

\* the lists the handler may return
PeriodsResults(start_date, end_date, company_unit, limit) ==
    LET matching == MatchingPeriods(start_date, end_date, company_unit)
    IN  { [i \in 1..Len(Limit(periods, limit)) |->
              FinancialMetrics(Reversed(Limit(periods, limit))[i])] :
          periods \in OrderDesc(matching, 1..Len(matching)) }

get_financial_periods(start_date, end_date, company_unit, limit) ==
    /\ Serving
    /\ \E body \in PeriodsResults(start_date, end_date, company_unit, limit) :
          resp' = [ op           |-> "periods",
                    start_date   |-> start_date,
                    end_date     |-> end_date,
                    company_unit |-> company_unit,
                    limit        |-> limit,
                    result       |-> [ status |-> 200, body |-> body ] ]
    /\ UNCHANGED <<dashboard, today, financial_periods, budget_data, cash_flow_data, gen, runs>>

\* the response goes out to the client
send_response ==
    /\ resp # NoResponse
    /\ resp' = NoResponse
    /\ UNCHANGED <<dashboard, today, financial_periods, budget_data, cash_flow_data, gen, runs>>

\* the units requests are made for
QueryUnits == CompanyUnit

Next ==
    \/ \E p \in Procs : GenerateStart(p)
    \/ \E p \in Procs : GenerateMonth(p)
    \/ \E p \in Procs : GenerateCommit(p)
    \/ \E p \in Procs : Restart(p)
    \/ \E period_months \in 1..MaxPeriodMonths, company_unit \in QueryUnits :
          get_financial_kpis(period_months, company_unit)
    \/ \E start_date \in StartDates, end_date \in EndDates,
          company_unit \in QueryUnits, limit \in 1..MaxLimit :
          get_financial_periods(start_date, end_date, company_unit, limit)
    \/ send_response

Spec == Init /\ [][Next]_vars

\* the generator is invoked again only after the invocation before it has ended
GenerateStartAlone(p) ==
    /\ \A q \in Procs : gen[q].pc # "loop"
    /\ GenerateStart(p)

NextSeq ==
    \/ \E p \in Procs : GenerateStartAlone(p)
    \/ \E p \in Procs : GenerateMonth(p)
    \/ \E p \in Procs : GenerateCommit(p)
    \/ \E p \in Procs : Restart(p)
    \/ \E period_months \in 1..MaxPeriodMonths, company_unit \in QueryUnits :
          get_financial_kpis(period_months, company_unit)
    \/ \E start_date \in StartDates, end_date \in EndDates,
          company_unit \in QueryUnits, limit \in 1..MaxLimit :
          get_financial_periods(start_date, end_date, company_unit, limit)
    \/ send_response

SpecSeq == Init /\ [][NextSeq]_vars

----------------------------------------------------------------------------
(* The dashboard: create_kpi_metrics *)

\* rows of df_pl, as far as create_kpi_metrics reads them: a month with a
\* profit, a month with a loss, a month with revenue 0 and a better month
PlRows ==
    { [ Revenue |-> Dollars(4000000), Net_Profit |-> Dollars(400000) ],
      [ Revenue |-> Dollars(4000000), Net_Profit |-> Dollars(-200000) ],
      [ Revenue |-> Zero,             Net_Profit |-> Zero ],
      [ Revenue |-> Dollars(5000000), Net_Profit |-> Dollars(600000) ] }

\* the frames main may pass: df_pl.tail(12), df_pl[df_pl['Year'] == ...], ...
Frames == UNION { [1..n -> PlRows] : n \in 0..MaxFrameRows }

\* df['Revenue'].sum() and df['Net_Profit'].sum(): a float64, 0.0 for no rows
RevenueSum(df) == SumSeq([i \in 1..Len(df) |-> df[i].Revenue])
NetProfitSum(df) == SumSeq([i \in 1..Len(df) |-> df[i].Net_Profit])

\* the dictionary create_kpi_metrics returns; the sums are numpy float64, so
\* a division by 0.0 gives inf or nan and raises nothing
create_kpi_metrics(df_current, df_previous) ==
    LET current_revenue  == RevenueSum(df_current)
        previous_revenue == RevenueSum(df_previous)
        revenue_growth   == FMul(FDiv(RSub(current_revenue, previous_revenue),
                                      previous_revenue), Rat(100, 1))
        current_profit   == NetProfitSum(df_current)
        previous_profit  == NetProfitSum(df_previous)
        profit_growth    == IF previous_profit # Zero
                            THEN FMul(FDiv(RSub(current_profit, previous_profit),
                                           previous_profit), Rat(100, 1))
                            ELSE Zero
        current_margin   == FMul(FDiv(current_profit, current_revenue), Rat(100, 1))
        previous_margin  == FMul(FDiv(previous_profit, previous_revenue), Rat(100, 1))
        margin_change    == FSub(current_margin, previous_margin)
        current_cash     == RMul(current_revenue, Rat(15, 100))
    IN  [ revenue |-> [ value |-> current_revenue, growth |-> revenue_growth ],
          profit  |-> [ value |-> current_profit,  growth |-> profit_growth ],
          margin  |-> [ value |-> current_margin,  change |-> margin_change ],
          cash    |-> [ value |-> current_cash,    growth |-> Rat(52, 10) ] ]

\* main has filtered df_pl into the two frames
InitDashboard ==
    /\ today \in Todays
    /\ financial_periods = <<>>
    /\ budget_data = <<>>
    /\ cash_flow_data = <<>>
    /\ gen = [p \in Procs |-> IdleGen]
    /\ runs = 0
    /\ resp = NoResponse
    /\ \E df_current \in Frames, df_previous \in Frames :
          dashboard = [ pc |-> "filtered", df_current |-> df_current,
                        df_previous |-> df_previous ]

\* kpis = create_kpi_metrics(df_current, df_previous)
CalculateKpis ==
    /\ dashboard.pc = "filtered"
    /\ dashboard' = [ pc          |-> "calculated",
                      df_current  |-> dashboard.df_current,
                      df_previous |-> dashboard.df_previous,
                      kpis        |-> create_kpi_metrics(dashboard.df_current,
                                                         dashboard.df_previous) ]
    /\ UNCHANGED <<today, financial_periods, budget_data, cash_flow_data, gen, runs, resp>>

NextDashboard == CalculateKpis

SpecDashboard == InitDashboard /\ [][NextDashboard]_vars

----------------------------------------------------------------------------
(* Properties *)

Tables == <<financial_periods, budget_data, cash_flow_data>>

\* rows in ascending order of period_date
Ascending(rows) == { Reversed(s) : s \in OrderDesc(rows, 1..Len(rows)) }

\* the KPI response held is a KPIResponse
KpiOk == resp.op = "kpis" /\ resp.result.status = 200

\* the windows of the KPI request held
RespCurrent == CurrentData(resp.period_months, resp.company_unit, today)
RespPrevious == PreviousData(resp.period_months, resp.company_unit, today)

\* 100 * (current - previous) / previous
PctChange(current, previous) ==
    RMul(Rat(100, 1), FDiv(RSub(current, previous), previous))

\* C1: after one invocation of the generator on an empty store has committed,
\* the cash-flow rows in ascending order of period_date chain their balances:
\* the first is the starting balance plus its net cash flow, every later one
\* the balance before it plus its net cash flow.
C1_RunningBalance ==
    (runs = 1 /\ cash_flow_data # <<>>) =>
        \A rows \in Ascending(cash_flow_data) :
            /\ rows[1].cash_balance =
                    RAdd(Dollars(STARTING_BALANCE), rows[1].net_cash_flow)
            /\ \A i \in 2..Len(rows) :
                    rows[i].cash_balance =
                        RAdd(rows[i - 1].cash_balance, rows[i].net_cash_flow)

\* C2: a KPI request whose current window holds no record of the requested
\* unit is answered with status 404.
C2_EmptyWindowNotFound ==
    (resp.op = "kpis" /\ RespCurrent = <<>>) => resp.result.status = 404

\* C3: with the invocations of the generator in sequence, an invocation
\* returns only with records in the tables, and once the tables hold records
\* no step adds, changes or removes a row: every further invocation leaves
\* the row counts of the first.
C3_Idempotent ==
    [][ /\ financial_periods # <<>> => Tables' = Tables
        /\ \A p \in Procs : gen'[p].pc = "done" => financial_periods' # <<>> ]_vars

\* a second invocation has returned early and the first one's rows stand
C3_Witness ==
    /\ \A p \in Procs : gen[p].pc = "done"
    /\ runs = 2
    /\ Len(financial_periods) = 2
    /\ Len(budget_data) = 2
    /\ Len(cash_flow_data) = 2

\* C4: under any interleaving of two invocations of the generator the store
\* holds at most one FinancialPeriod row per (period_date, company_unit).
C4_OneRowPerPeriod ==
    \A i, j \in 1..Len(financial_periods) :
        ( /\ financial_periods[i].period_date = financial_periods[j].period_date
          /\ financial_periods[i].company_unit = financial_periods[j].company_unit )
        => i = j

\* C5: a KPI request with records in its current window and none in its
\* previous window succeeds, with both growth rates and the margin change 0.
C5_NoBaseline ==
    (resp.op = "kpis" /\ RespCurrent # <<>> /\ RespPrevious = <<>>) =>
        /\ resp.result.status = 200
        /\ resp.result.revenue_growth_pct = Zero
        /\ resp.result.profit_growth_pct = Zero
        /\ resp.result.margin_change_pp = Zero

\* the current window has two records with a profit, the previous has none
C5_Witness ==
    /\ KpiOk
    /\ Len(RespCurrent) >= 2
    /\ RespPrevious = <<>>
    /\ IsPos(resp.result.total_profit)
    /\ resp.result.margin_change_pp = Zero

\* C6: in a KPI response revenue_growth_pct is
\* 100 * (current revenue - previous revenue) / previous revenue when the
\* previous window's revenue is not zero, and 0 when it is; 2,200,000 against
\* 1,900,000 gives about 15.79.
C6_RevenueGrowth ==
    /\ KpiOk =>
          LET current  == SumSeq(Revenues(RespCurrent))
              previous == SumSeq(Revenues(RespPrevious))
          IN  resp.result.revenue_growth_pct =
                  IF previous # Zero THEN PctChange(current, previous) ELSE Zero
    /\ RLess(Rat(1578, 100), RevenueGrowth(Dollars(2200000), Dollars(1900000)))
    /\ RLess(RevenueGrowth(Dollars(2200000), Dollars(1900000)), Rat(1580, 100))

\* a response with a revenue growth other than 0
C6_Witness ==
    /\ KpiOk
    /\ RespPrevious # <<>>
    /\ resp.result.revenue_growth_pct # Zero

\* C7: in a KPI response with records in the previous window,
\* profit_growth_pct is 100 * (current profit - previous profit) / previous
\* profit whenever the previous window's profit is not zero, be it a profit
\* or a loss.
C7_ProfitGrowth ==
    (KpiOk /\ RespPrevious # <<>>) =>
        LET current  == SumSeq(NetProfits(RespCurrent))
            previous == SumSeq(NetProfits(RespPrevious))
        IN  previous # Zero =>
                resp.result.profit_growth_pct = PctChange(current, previous)

\* the records a period listing may return: of the unit and within the range
RespMatching == MatchingPeriods(resp.start_date, resp.end_date, resp.company_unit)

\* C8: a period listing returns min(limit, number of matching records)
\* records, each a matching record, in strictly ascending order of
\* period_date, and no matching record left out is more recent than one
\* returned.
C8_PeriodsListing ==
    resp.op = "periods" =>
        LET body     == resp.result.body
            matching == RespMatching
        IN  /\ resp.result.status = 200
            /\ Len(body) = IF Len(matching) < resp.limit THEN Len(matching) ELSE resp.limit
            /\ \A i \in 1..Len(body) :
                  \E k \in 1..Len(matching) : body[i] = FinancialMetrics(matching[k])
            /\ \A i \in 1..Len(body) - 1 :
                  DateLess(body[i].period_date, body[i + 1].period_date)
            /\ \A k \in 1..Len(matching) :
                  \/ \E i \in 1..Len(body) : body[i] = FinancialMetrics(matching[k])
                  \/ \A i \in 1..Len(body) :
                        DateLeq(matching[k].period_date, body[i].period_date)

\* the cash-flow rows of the requested unit dated today or earlier
RespCashRows ==
    SelectSeq(cash_flow_data, LAMBDA r :
        DateLeq(r.period_date, today) /\ r.company_unit = resp.company_unit)

\* C9: in a KPI response cash_position is the cash_balance of a cash-flow row
\* of the unit with the greatest period_date not after today; if there is no
\* such row it is 0.15 times the current window's revenue.
C9_CashPosition ==
    KpiOk =>
        IF RespCashRows # <<>>
        THEN \E i \in 1..Len(RespCashRows) :
                /\ \A k \in 1..Len(RespCashRows) :
                      DateLeq(RespCashRows[k].period_date, RespCashRows[i].period_date)
                /\ resp.result.cash_position = RespCashRows[i].cash_balance
        ELSE resp.result.cash_position =
                RMul(Rat(15, 100), SumSeq(Revenues(RespCurrent)))

\* the latest of several rows with different balances is the one reported
C9_Witness ==
    /\ KpiOk
    /\ \E i, k \in 1..Len(RespCashRows) :
          /\ DateLess(RespCashRows[k].period_date, RespCashRows[i].period_date)
          /\ RespCashRows[k].cash_balance # RespCashRows[i].cash_balance
          /\ resp.result.cash_position = RespCashRows[i].cash_balance

\* every FinancialPeriod row the generator has built or stored
WrittenFinancialRows ==
    { financial_periods[i] : i \in 1..Len(financial_periods) }
    \cup UNION { { gen[p].new_financial[i] : i \in 1..Len(gen[p].new_financial) } :
                 p \in Procs }

\* C10: every FinancialPeriod row written by the generator has
\* gross_profit = revenue - cogs, total_expenses = the sum of the six
\* expenses, net_profit = revenue - total_expenses, and both margins equal to
\* 100 times the profit over the revenue, the rows with revenue 0 included.
C10_DerivedFields ==
    \A r \in WrittenFinancialRows :
        /\ r.gross_profit = RSub(r.revenue, r.cogs)
        /\ r.total_expenses =
              RAdd(r.cogs, RAdd(r.salaries, RAdd(r.marketing,
                   RAdd(r.rd_expense, RAdd(r.operations, r.other_expenses)))))
        /\ r.net_profit = RSub(r.revenue, r.total_expenses)
        /\ IsFinite(r.gross_margin_pct)
        /\ IsFinite(r.net_margin_pct)
        /\ RMul(r.gross_margin_pct, r.revenue) = RMul(Rat(100, 1), r.gross_profit)
        /\ RMul(r.net_margin_pct, r.revenue) = RMul(Rat(100, 1), r.net_profit)

\* the period_dates of a list of rows
PeriodDates(rows) == { rows[i].period_date : i \in 1..Len(rows) }

\* the range the generator covers
RangeStart == MinusDays(today, SpanDays)
RangeEnd == today

\* the first days of the months from the month of the range's start to its end
GeneratedPeriods ==
    LET first == FirstOfMonth(RangeStart)
    IN  { d \in { Date(y, m, 1) : y \in first.year..RangeEnd.year, m \in 1..12 } :
            DateLeq(first, d) /\ DateLeq(d, RangeEnd) }

\* C11: a generator invocation that fails, at a month of its loop or at its
\* commit, leaves the three tables as they were, and every step that changes
\* the tables, which start empty, leaves each of them with the complete set
\* of generated periods and the three with the same number of rows: each
\* committed table holds no period or all of them.
C11_AllOrNothing ==
    [][ /\ \A p \in Procs :
              (gen[p].pc # "failed" /\ gen'[p].pc = "failed") => Tables' = Tables
        /\ Tables' # Tables =>
              LET complete == GeneratedPeriods
              IN  /\ PeriodDates(financial_periods') = complete
                  /\ PeriodDates(budget_data') = complete
                  /\ PeriodDates(cash_flow_data') = complete
                  /\ Len(budget_data') = Len(financial_periods')
                  /\ Len(cash_flow_data') = Len(financial_periods') ]_vars

\* one invocation has failed with rows pending and left nothing, another
\* has committed its complete set
C11_Witness ==
    \E p, q \in Procs :
        /\ gen[p].pc = "failed"
        /\ gen[q].pc = "done"
        /\ PeriodDates(financial_periods) = GeneratedPeriods
        /\ Len(financial_periods) = Len(budget_data)
        /\ Len(financial_periods) = Cardinality(GeneratedPeriods)

\* every row the generator has built or stored, of the three tables
WrittenRows ==
    WrittenFinancialRows
    \cup { budget_data[i] : i \in 1..Len(budget_data) }
    \cup { cash_flow_data[i] : i \in 1..Len(cash_flow_data) }
    \cup UNION { { gen[p].new_budget[i] : i \in 1..Len(gen[p].new_budget) } : p \in Procs }
    \cup UNION { { gen[p].new_cash[i] : i \in 1..Len(gen[p].new_cash) } : p \in Procs }

\* C12: every record the generator writes has a period_date that is the
\* first day of a month and lies within [start_date, end_date], so none is
\* earlier than start_date.
C12_WithinRange ==
    \A r \in WrittenRows :
        /\ r.period_date.day = 1
        /\ DateLeq(RangeStart, r.period_date)
        /\ DateLeq(r.period_date, RangeEnd)

\* C13: every FinancialPeriod row written by the generator has revenue, cogs,
\* salaries, marketing, rd_expense, operations and other_expenses all at
\* least 0, whatever the random factors.
C13_NonNegativeAmounts ==
    \A r \in WrittenFinancialRows :
        /\ ~IsNeg(r.revenue)
        /\ ~IsNeg(r.cogs)
        /\ ~IsNeg(r.salaries)
        /\ ~IsNeg(r.marketing)
        /\ ~IsNeg(r.rd_expense)
        /\ ~IsNeg(r.operations)
        /\ ~IsNeg(r.other_expenses)

\* the records of the requested unit dated from lo to hi days before today,
\* the day counted as a number
RespDaysBack(hi, lo) ==
    LET asOf == ToOrdinal(today)
    IN  SelectSeq(financial_periods, LAMBDA r :
            /\ r.company_unit = resp.company_unit
            /\ LET day == ToOrdinal(r.period_date)
               IN  asOf - hi <= day /\ day <= asOf - lo)

\* C14: for a KPI request of n months the current window is the records dated
\* 0 to 30n days before today, both ends included, and the previous window
\* the records dated 30n + 1 to 60n days before today: the windows are
\* adjacent and share no record, a record dated exactly 30n days before today
\* is in the current window only, and the totals of the response are those
\* of these windows.
C14_Windows ==
    resp.op = "kpis" =>
        LET n        == resp.period_months
            current  == RespDaysBack(DAYS_PER_MONTH * n, 0)
            previous == RespDaysBack(2 * DAYS_PER_MONTH * n, DAYS_PER_MONTH * n + 1)
        IN  /\ RespCurrent = current
            /\ RespPrevious = previous
            /\ \A i \in 1..Len(RespCurrent), k \in 1..Len(RespPrevious) :
                  RespCurrent[i].period_date # RespPrevious[k].period_date
            /\ KpiOk =>
                  /\ resp.result.total_revenue = SumSeq(Revenues(current))
                  /\ resp.result.total_profit = SumSeq(NetProfits(current))
                  /\ resp.result.period_start = MinusDays(today, DAYS_PER_MONTH * n)
                  /\ previous # <<>> =>
                        resp.result.revenue_growth_pct =
                            RevenueGrowth(SumSeq(Revenues(current)),
                                          SumSeq(Revenues(previous)))

\* a record is dated exactly the start of the current window, is in the
\* current window and not in the previous one, which holds another record
C14_Witness ==
    /\ KpiOk
    /\ RespPrevious # <<>>
    /\ \E i \in 1..Len(RespCurrent) :
          /\ RespCurrent[i].period_date = resp.result.period_start
          /\ \A k \in 1..Len(RespPrevious) :
                RespPrevious[k].period_date # RespCurrent[i].period_date
    /\ resp.result.revenue_growth_pct # Zero

\* 100 * profit / revenue of a window if its revenue is above 0, else 0
NetMarginOf(rows) ==
    LET revenue == SumSeq(Revenues(rows))
        profit  == SumSeq(NetProfits(rows))
    IN  IF RLess(Zero, revenue)
        THEN FDiv(RMul(Rat(100, 1), profit), revenue)
        ELSE Zero

\* C15: in a KPI response net_margin_pct is 100 * total profit / total
\* revenue of the current window when that revenue is above 0 and 0
\* otherwise, and with records in the previous window margin_change_pp is the
\* current net margin minus the previous window's, computed by the same rule.
C15_NetMargin ==
    KpiOk =>
        /\ resp.result.net_margin_pct = NetMarginOf(RespCurrent)
        /\ RespPrevious # <<>> =>
              resp.result.margin_change_pp =
                  RSub(NetMarginOf(RespCurrent), NetMarginOf(RespPrevious))

\* a current window at a loss after a previous window with a profit
C15_Witness ==
    /\ KpiOk
    /\ RespPrevious # <<>>
    /\ IsNeg(resp.result.net_margin_pct)
    /\ IsPos(NetMarginOf(RespPrevious))
    /\ IsNeg(resp.result.margin_change_pp)

\* the budget row and the financial row of one period share one multiplier
\* for revenue and net profit
SharedMultiplier(budget, fin) ==
    /\ budget.period_date = fin.period_date
    /\ \E f \in IF fin.revenue # Zero
                THEN { FDiv(budget.budget_revenue, fin.revenue) }
                ELSE IF fin.net_profit # Zero
                THEN { FDiv(budget.budget_net_profit, fin.net_profit) }
                ELSE { Rat(1, 1) } :
          /\ budget.budget_revenue = RMul(fin.revenue, f)
          /\ budget.budget_net_profit = RMul(fin.net_profit, f)

\* C16: for every generated period the budget revenue and the budget net
\* profit are the period's revenue and net profit times one multiplier f, so
\* budget_revenue * net_profit = budget_net_profit * revenue; the budget
\* expenses have a multiplier of their own, which the witness shows to differ.
C16_SharedBudgetMultiplier ==
    /\ Len(budget_data) = Len(financial_periods)
    /\ \A i \in 1..Len(budget_data) :
          SharedMultiplier(budget_data[i], financial_periods[i])
    /\ \A p \in Procs :
          /\ Len(gen[p].new_budget) = Len(gen[p].new_financial)
          /\ \A i \in 1..Len(gen[p].new_budget) :
                SharedMultiplier(gen[p].new_budget[i], gen[p].new_financial[i])

\* a stored period with a profit whose budget expenses are scaled by another
\* multiplier than its budget revenue
C16_Witness ==
    \E i \in 1..Len(budget_data) :
        /\ IsPos(financial_periods[i].net_profit)
        /\ budget_data[i].budget_net_profit # financial_periods[i].net_profit
        /\ FDiv(budget_data[i].budget_expenses, financial_periods[i].total_expenses) #
               FDiv(budget_data[i].budget_revenue, financial_periods[i].revenue)

\* no two rows of the list have the same unit and period_date
OneRowPerPeriod(rows) ==
    \A i, j \in 1..Len(rows) :
        (rows[i].period_date = rows[j].period_date
            /\ rows[i].company_unit = rows[j].company_unit) => i = j

C18_DashboardNoBaseline ==
    ( /\ dashboard.pc = "calculated"
      /\ dashboard.df_previous = <<>>
      /\ dashboard.df_current # <<>> ) =>
        /\ dashboard.kpis.revenue.growth = Zero
        /\ dashboard.kpis.profit.growth = Zero
        /\ dashboard.kpis.margin.change = Zero

\* the table holds every generated period exactly once
EachPeriodOnce(rows, periods) ==
    /\ PeriodDates(rows) = periods
    /\ Len(rows) = Cardinality(periods)

\* C19: with the generator's invocations in sequence, after a generation on
\* an empty store has committed each of the three tables holds, exactly once,
\* every first of a month from the month of start_date to the last one not
\* after end_date, consecutive months without a gap; the loop has then run
\* once per period, and while it runs it has written the periods before
\* current_date and no other.
C19_SamePeriodsEverywhere ==
    LET periods == GeneratedPeriods
    IN  /\ financial_periods # <<>> =>
              /\ EachPeriodOnce(financial_periods, periods)
              /\ EachPeriodOnce(budget_data, periods)
              /\ EachPeriodOnce(cash_flow_data, periods)
        /\ \A p \in Procs :
              gen[p].pc = "loop" =>
                  LET written == { d \in periods : DateLess(d, gen[p].current_date) }
                  IN  /\ EachPeriodOnce(gen[p].new_financial, written)
                      /\ EachPeriodOnce(gen[p].new_budget, written)
                      /\ EachPeriodOnce(gen[p].new_cash, written)
                      /\ ~DateLeq(gen[p].current_date, gen[p].end_date) =>
                            written = periods

\* the tables hold a December and the January after it, and nothing else
C19_Witness ==
    /\ Len(financial_periods) = 2
    /\ \E i, k \in 1..Len(cash_flow_data) :
          /\ cash_flow_data[i].period_date.month = 12
          /\ cash_flow_data[k].period_date.month = 1
          /\ cash_flow_data[k].period_date.year = cash_flow_data[i].period_date.year + 1
    /\ PeriodDates(budget_data) = PeriodDates(financial_periods)
    /\ PeriodDates(cash_flow_data) = PeriodDates(financial_periods)

\* the units other than the consolidated one
OtherUnits == {"north_america", "europe", "asia_pacific"}

\* C20: every row stored in any of the three tables has company_unit
\* 'consolidated'; so a KPI request for north_america, europe or asia_pacific
\* is never answered with a KPI object, and a period listing for one of these
\* units returns an empty array.
C20_ConsolidatedOnly ==
    /\ \A r \in WrittenRows : r.company_unit = "consolidated"
    /\ (resp.op = "kpis" /\ resp.company_unit \in OtherUnits) =>
          resp.result.status # 200
    /\ (resp.op = "periods" /\ resp.company_unit \in OtherUnits) =>
          /\ resp.result.status = 200
          /\ resp.result.body = <<>>

\* a listing for asia_pacific, with no bounds on the dates, over a store
\* that holds records
C20_Witness ==
    /\ financial_periods # <<>>
    /\ resp.op = "periods"
    /\ resp.company_unit = "asia_pacific"
    /\ resp.start_date = NoDate
    /\ resp.end_date = NoDate
    /\ resp.result.body = <<>>

====
